---------------------------- MODULE Spec2Model ----------------------------
(***************************************************************************)
(* State-machine model of Farm (src/MinersLib/Farm.cpp): the worker pool   *)
(* lifecycle, work distribution, telemetry aggregation, the asynchronous   *)
(* submission pipeline and the consecutive-rejection circuit breaker.      *)
(*                                                                         *)
(* Time is TimeGetMilliSec() in milliseconds.  Variables prefixed h_ are   *)
(* observers: they record what was called and when, and no modelled code   *)
(* reads them.                                                             *)
(***************************************************************************)
EXTENDS Integers, Sequences, FiniteSets, TLC

(***************************************************************************)
(* Bounds of the model                                                     *)
(***************************************************************************)
\* the clock of the circuit-breaker runs stops after this many minutes
MaxMinutes == 8
\* AddAcceptedSolution/AddRejectedSolution calls in one run
MaxSolutions == 6
\* the clock of the pool runs stops this many seconds after construction
MaxPollSeconds == 1
\* submitProof calls in one run
MaxSubmits == 2
\* identity tokens and payloads of the work packages offered to SetWork
NumTokens == 2
NumPayloads == 2

(***************************************************************************)
(* Program constants                                                       *)
(***************************************************************************)
\* g_maxConsecutiveSubmitErrors, the configured maximum (Farm.cpp:386)
g_maxConsecutiveSubmitErrors == 3
\* the 5 of "5 * 60000" (Farm.cpp:398)
QuietMinutes == 5
\* the 60000 of "5 * 60000" (Farm.cpp:398): milliseconds in a minute
MinuteMS == 60000
\* the dt floor of miningProgress (Farm.cpp:227-228)
MinProgressDtMS == 100
\* milliseconds in a second, the 1000.0f of Farm.cpp:238
SecondMS == 1000

(***************************************************************************)
(* Device inventory (GpuManager::Gpus)                                     *)
(***************************************************************************)
\* gpuType is a bit set (RHMINER_TEST_BIT); every enabled device is
\* initialized (RHMINER_ASSERT(gpu.initialized))
DeviceOff == [enabled |-> FALSE, gpuType |-> {"CPU"}, gpuName |-> <<>>]
DeviceCpu == [enabled |-> TRUE, gpuType |-> {"CPU"}, gpuName |-> <<>>]
DeviceNvidia == [enabled |-> TRUE, gpuType |-> {"NVIDIA"}, gpuName |-> <<>>]
DeviceAmd == [enabled |-> TRUE, gpuType |-> {"AMD"}, gpuName |-> <<>>]

\* the inventories the farm is started on: two workers; one worker behind a
\* skipped AMD device; one worker before a disabled device; no worker at all
Inventories == {<<DeviceCpu, DeviceNvidia>>, <<DeviceAmd, DeviceCpu>>,
                <<DeviceNvidia, DeviceOff>>, <<DeviceOff, DeviceAmd>>}

\* the absolute device indices: positions of the inventory, from 0
DeviceIndices == {k - 1 : k \in DOMAIN <<DeviceCpu, DeviceNvidia>>}

VARIABLES
    now,                         \* TimeGetMilliSec()
    exitStatus,                  \* "running", or how the process ended
    m_solutionStats,             \* m_farmData.m_solutionStats
    m_consecutiveRejectedCount,  \* m_farmData.m_consecutiveRejectedCount
    m_lastRejectedTimeMS,        \* m_farmData.m_lastRejectedTimeMS
    h_breaker,                   \* observer of the accept/reject calls
    Gpus,                        \* GpuManager::Gpus, the device inventory
    g_ExitApplication,           \* the exit flag RHMINER_RETURN_ON_EXIT_FLAG_EX reads
    m_isMining,
    m_miners,                    \* the pool: sequence of miner objects (by identity)
    m_minersCount,
    miners,                      \* the live Miner objects: identity -> fields
    m_work,                      \* m_farmData.m_work
    m_workMutex,                 \* holder of m_farmData.m_workMutex, or "free"
    m_timerStart,                \* the timing reference resetTimer() sets
    m_lastProgressTime,
    m_minersHasheRatePeak,       \* m_farmData.m_minersHasheRatePeak
    m_progress,                  \* m_farmData.m_progress
    pc,                          \* where each calling context is
    frame,                       \* the locals of the call each context is in
    ret,                         \* the value the last start/DetectDeadMiners call returned
    h_starts,                    \* observer: start() calls since the last teardown
    h_peakMax,                   \* observer: highest peak ever reported per position
    m_submitID,
    m_submiters,                 \* submission id -> [t: thread handle, done: flag]
    m_sumbitMutex,               \* holder of m_sumbitMutex, or "free"
    gs_sequentialBuildMutex,     \* the thread holding *gs_sequentialBuildMutex, or NoThread
    threads,                     \* the dispatched threads: handle -> state
    sub                          \* the submitProof call each worker thread is in

breakerVars == <<m_solutionStats, m_consecutiveRejectedCount,
                 m_lastRejectedTimeMS, h_breaker>>

poolVars == <<m_isMining, m_miners, m_minersCount, miners>>
workVars == <<m_work, m_workMutex, m_timerStart>>
teleVars == <<m_lastProgressTime, m_minersHasheRatePeak, m_progress>>
ctxVars == <<pc, frame, ret>>
obsVars == <<h_starts, h_peakMax>>
farmVars == <<Gpus, g_ExitApplication, poolVars, workVars, teleVars, ctxVars, obsVars>>

submitVars == <<m_submitID, m_submiters, m_sumbitMutex, gs_sequentialBuildMutex,
                threads, sub>>

vars == <<now, exitStatus, breakerVars, farmVars, submitVars>>

(***************************************************************************)
(* Circuit breaker: AddAcceptedSolution / AddRejectedSolution              *)
(***************************************************************************)
ZeroStats == [accepted |-> [d \in DeviceIndices |-> 0],
              rejected |-> [d \in DeviceIndices |-> 0]]

RECURSIVE SumOver(_, _)
SumOver(f, S) ==
    IF S = {} THEN 0
    ELSE LET x == CHOOSE y \in S : TRUE IN f[x] + SumOver(f, S \ {x})

\* number of solutions reported so far in this run
SolutionsReported ==
    SumOver(m_solutionStats.accepted, DeviceIndices)
        + SumOver(m_solutionStats.rejected, DeviceIndices)

\* m_lastRejectedTimeMS && (TimeGetMilliSec() - m_lastRejectedTimeMS) > 5 * 60000
QuietGapExceeded(last, t) ==
    last # 0 /\ (t - last) > QuietMinutes * MinuteMS

Min(a, b) == IF a < b THEN a ELSE b

\* The observer after an AddRejectedSolution call at time t:
\*   prev      time of this call (the previous rejection for the next call)
\*   run       length of the run of rejections ending here, each made at most
\*             5 minutes after the rejection before it, no accept inside the run
\*   claimed   the counter as the rejection rule "first = 1, gap <= 5 min = +1,
\*             gap > 5 min = 1" computes it
\*   sinceAcc  rejections since the last accept (or since construction)
ObserveReject(h, t) ==
    LET inWindow == h.prev # 0 /\ (t - h.prev) <= QuietMinutes * MinuteMS
    IN [h EXCEPT
          !.prev = t,
          !.run = IF inWindow THEN Min(h.run + 1, g_maxConsecutiveSubmitErrors + 1) ELSE 0,
          !.claimed = IF h.prev = 0 THEN 1
                      ELSE IF inWindow THEN h.claimed + 1 ELSE 1,
          !.sinceAcc = Min(h.sinceAcc + 1, g_maxConsecutiveSubmitErrors + 1),
          !.lastOp = "reject"]

ObserveAccept(h) ==
    [h EXCEPT !.run = 0, !.sinceAcc = 0, !.lastOp = "accept", !.accepts = TRUE]

AddAcceptedSolution_NoReset(gpuAbsIndex) ==
    /\ exitStatus = "running"
    /\ SolutionsReported < MaxSolutions
    /\ m_solutionStats' = [m_solutionStats EXCEPT !.accepted[gpuAbsIndex] = @ + 1]
    /\ h_breaker' = ObserveAccept(h_breaker)
    /\ UNCHANGED <<now, exitStatus, m_consecutiveRejectedCount, m_lastRejectedTimeMS,
                   farmVars, submitVars>>

AddAcceptedSolution(gpuAbsIndex) ==
    /\ exitStatus = "running"
    /\ SolutionsReported < MaxSolutions
    /\ m_solutionStats' = [m_solutionStats EXCEPT !.accepted[gpuAbsIndex] = @ + 1]
    /\ m_consecutiveRejectedCount' = 0
    /\ h_breaker' = ObserveAccept(h_breaker)
    /\ UNCHANGED <<now, exitStatus, m_lastRejectedTimeMS, farmVars, submitVars>>

AddRejectedSolution(gpuAbsIndex) ==
    /\ exitStatus = "running"
    /\ SolutionsReported < MaxSolutions
    /\ m_solutionStats' = [m_solutionStats EXCEPT !.rejected[gpuAbsIndex] = @ + 1]
    /\ h_breaker' = ObserveReject(h_breaker, now)
    /\ IF QuietGapExceeded(m_lastRejectedTimeMS, now)
       THEN /\ m_consecutiveRejectedCount' = 0
            /\ UNCHANGED <<m_lastRejectedTimeMS, exitStatus>>
       ELSE /\ m_consecutiveRejectedCount' = m_consecutiveRejectedCount + 1
            /\ m_lastRejectedTimeMS' = now
            /\ exitStatus' =
                 IF m_consecutiveRejectedCount + 1 >= g_maxConsecutiveSubmitErrors
                 THEN "fatal" ELSE exitStatus
    /\ UNCHANGED <<now, farmVars, submitVars>>

\* a minute passes between two calls
TickMinute ==
    /\ exitStatus = "running"
    /\ now + MinuteMS <= MaxMinutes * MinuteMS
    /\ now' = now + MinuteMS
    /\ UNCHANGED <<exitStatus, breakerVars, farmVars, submitVars>>

(***************************************************************************)
(* Calling contexts, work packages, miner objects                          *)
(***************************************************************************)
\* the two external contexts the Farm is driven from
Contexts == {"feed", "poll"}

\* the raw counters GetHashRatePerSec() reports to a poll: idle, or one unit
HashCounts == {0, 1}

NoWork == [token |-> 0, payload |-> 0]
Packages == [token : 1 .. NumTokens, payload : 1 .. NumPayloads]

\* PascalWork::IsSame: same work iff the identity tokens match
IsSame(a, b) == a.token = b.token

Range(seq) == {seq[k] : k \in 1 .. Len(seq)}

Max(a, b) == IF a > b THEN a ELSE b

EmptyFrame == [newMiners |-> <<>>, globalIndex |-> 0, p |-> <<>>,
               snap |-> <<>>, i |-> 0, same |-> FALSE, arg |-> NoWork,
               oldWork |-> NoWork, oldTimer |-> 0, raced |-> FALSE]

\* the address a newly allocated Miner gets: the lowest one not in use
FreshMiner == CHOOSE k \in 1 .. (Cardinality(DOMAIN miners) + 1) :
                  k \notin DOMAIN miners

\* createType of Farm::start
CreateType(gpu) ==
    IF "NVIDIA" \in gpu.gpuType THEN "ClassNvidia"
    ELSE IF "AMD" \in gpu.gpuType THEN "ClassOpenCL"
    ELSE IF "CPU" \in gpu.gpuType THEN "ClassCPU"
    ELSE "ClassOpenCL"

\* gpu.gpuName as Farm::start sets it
GpuName(gpu, globalIndex) ==
    IF "NVIDIA" \notin gpu.gpuType /\ "AMD" \notin gpu.gpuType /\ "CPU" \in gpu.gpuType
    THEN <<"CPU">> ELSE <<"GPU", globalIndex>>

\* GlobalMiningPreset::CreateMiner(createType, farm, globalIndex)
CreateMiner(createType, globalIndex) ==
    [abs |-> globalIndex, idx |-> -1,
     platform |-> IF createType = "ClassCPU" THEN "CPU" ELSE "GPU",
     st |-> "created", work |-> NoWork]

\* Miner::InitFromFarm(poolIndex) followed by Miner::StartWorking():
\* the worker thread starts and pauses, waiting for a work package
InitAndStart(m, poolIndex) == [m EXCEPT !.idx = poolIndex, !.st = "paused"]

\* Miner::SetWork(package): a paused miner resumes on the package
MinerSetWork(m, w) ==
    [m EXCEPT !.work = w, !.st = IF m.st = "paused" THEN "working" ELSE m.st]

\* resetTimer(): the throughput timing reference restarts now
ResetTimer == m_timerStart' = now

Without(f, S) == [k \in (DOMAIN f) \ S |-> f[k]]

Drop2(seq) == IF Len(seq) > 2 THEN Tail(seq) ELSE seq

(***************************************************************************)
(* Farm::internalStop                                                      *)
(***************************************************************************)
\* Kill() on every miner of the pool, then clear(): the pool held the only
\* references, so the killed miners are destroyed; the mining flag is cleared
InternalStop_KeepsFlag ==
    IF ~m_isMining
    THEN UNCHANGED <<m_miners, m_isMining, miners>>
    ELSE /\ miners' = Without(miners, Range(m_miners))
         /\ m_miners' = <<>>
         /\ UNCHANGED m_isMining

InternalStop ==
    IF ~m_isMining
    THEN UNCHANGED <<m_miners, m_isMining, miners>>
    ELSE /\ miners' = Without(miners, Range(m_miners))
         /\ m_miners' = <<>>
         /\ m_isMining' = FALSE

(***************************************************************************)
(* Farm::start                                                             *)
(***************************************************************************)
\* what the observer keeps of one finished start() call: the value returned,
\* the number of workers constructed, the number registered and started
StartRecord(val, sawExit, built, registered, poolAfter) ==
    [val |-> val, built |-> built, reg |-> registered]

\* return of a call with a value
Return(c, r) ==
    /\ pc' = [pc EXCEPT ![c] = "idle"]
    /\ frame' = [frame EXCEPT ![c] = EmptyFrame]
    /\ ret' = [ret EXCEPT ![c] = r]

\* return of a void call, or of a reference to Farm state
ReturnVoid(c) ==
    /\ pc' = [pc EXCEPT ![c] = "idle"]
    /\ frame' = [frame EXCEPT ![c] = EmptyFrame]
    /\ UNCHANGED ret

\* the pre-init block: already mining, or a pool left behind: return true
Start_PreInit_NoGuard(c) ==
    /\ exitStatus = "running"
    /\ pc[c] = "idle"
    /\ m_solutionStats' = ZeroStats
    /\ pc' = [pc EXCEPT ![c] = "start_alloc"]
    /\ frame' = [frame EXCEPT ![c] = EmptyFrame]
    /\ UNCHANGED <<ret, h_starts>>
    /\ UNCHANGED <<now, exitStatus, m_consecutiveRejectedCount, m_lastRejectedTimeMS,
                   h_breaker, Gpus, g_ExitApplication, poolVars, workVars, teleVars,
                   h_peakMax, submitVars>>

Start_PreInit(c) ==
    /\ exitStatus = "running"
    /\ pc[c] = "idle"
    /\ IF m_isMining
       THEN /\ Return(c, [op |-> "start", val |-> TRUE])
            /\ h_starts' = Drop2(Append(h_starts,
                               StartRecord(TRUE, FALSE, 0, 0, m_miners)))
            /\ UNCHANGED m_solutionStats
       ELSE /\ m_solutionStats' = ZeroStats        \* m_solutionStats.Begin()
            /\ IF m_miners # <<>>
               THEN /\ Return(c, [op |-> "start", val |-> TRUE])
                    /\ h_starts' = Drop2(Append(h_starts,
                                       StartRecord(TRUE, FALSE, 0, 0, m_miners)))
               ELSE /\ pc' = [pc EXCEPT ![c] = "start_alloc"]
                    /\ frame' = [frame EXCEPT ![c] = EmptyFrame]
                    /\ UNCHANGED <<ret, h_starts>>
    /\ UNCHANGED <<now, exitStatus, m_consecutiveRejectedCount, m_lastRejectedTimeMS,
                   h_breaker, Gpus, g_ExitApplication, poolVars, workVars, teleVars,
                   h_peakMax, submitVars>>

\* one iteration of the allocation loop over GpuManager::Gpus
Start_Alloc_NoAmdSkip(c) ==
    LET gi == frame[c].globalIndex
        gpu == Gpus[gi + 1]
        new == FreshMiner
    IN
    /\ exitStatus = "running"
    /\ pc[c] = "start_alloc"
    /\ gi < Len(Gpus)
    /\ IF g_ExitApplication
       THEN \* RHMINER_RETURN_ON_EXIT_FLAG_EX(false): newMiners is destroyed
            /\ Return(c, [op |-> "start", val |-> FALSE])
            /\ miners' = Without(miners, Range(frame[c].newMiners))
            /\ h_starts' = Drop2(Append(h_starts,
                   StartRecord(FALSE, TRUE, Len(frame[c].newMiners), 0, m_miners)))
            /\ UNCHANGED Gpus
       ELSE /\ IF gpu.enabled
               THEN /\ Gpus' = [Gpus EXCEPT ![gi + 1].gpuName = GpuName(gpu, gi)]
                    /\ IF FALSE
                       THEN \* no kernel for the device: reported and skipped
                            /\ frame' = [frame EXCEPT ![c].globalIndex = gi + 1]
                            /\ UNCHANGED miners
                       ELSE /\ miners' = (new :> CreateMiner(CreateType(gpu), gi)) @@ miners
                            /\ frame' = [frame EXCEPT
                                           ![c].globalIndex = gi + 1,
                                           ![c].newMiners = Append(@, new)]
               ELSE /\ frame' = [frame EXCEPT ![c].globalIndex = gi + 1]
                    /\ UNCHANGED <<Gpus, miners>>
            /\ UNCHANGED <<pc, ret, h_starts>>
    /\ UNCHANGED <<now, exitStatus, breakerVars, g_ExitApplication, m_isMining,
                   m_miners, m_minersCount, workVars, teleVars,
                   h_peakMax, submitVars>>

Start_Alloc(c) ==
    LET gi == frame[c].globalIndex
        gpu == Gpus[gi + 1]
        new == FreshMiner
    IN
    /\ exitStatus = "running"
    /\ pc[c] = "start_alloc"
    /\ gi < Len(Gpus)
    /\ IF g_ExitApplication
       THEN \* RHMINER_RETURN_ON_EXIT_FLAG_EX(false): newMiners is destroyed
            /\ Return(c, [op |-> "start", val |-> FALSE])
            /\ miners' = Without(miners, Range(frame[c].newMiners))
            /\ h_starts' = Drop2(Append(h_starts,
                   StartRecord(FALSE, TRUE, Len(frame[c].newMiners), 0, m_miners)))
            /\ UNCHANGED Gpus
       ELSE /\ IF gpu.enabled
               THEN /\ Gpus' = [Gpus EXCEPT ![gi + 1].gpuName = GpuName(gpu, gi)]
                    /\ IF "AMD" \in gpu.gpuType
                       THEN \* no kernel for the device: reported and skipped
                            /\ frame' = [frame EXCEPT ![c].globalIndex = gi + 1]
                            /\ UNCHANGED miners
                       ELSE /\ miners' = (new :> CreateMiner(CreateType(gpu), gi)) @@ miners
                            /\ frame' = [frame EXCEPT
                                           ![c].globalIndex = gi + 1,
                                           ![c].newMiners = Append(@, new)]
               ELSE /\ frame' = [frame EXCEPT ![c].globalIndex = gi + 1]
                    /\ UNCHANGED <<Gpus, miners>>
            /\ UNCHANGED <<pc, ret, h_starts>>
    /\ UNCHANGED <<now, exitStatus, breakerVars, g_ExitApplication, m_isMining,
                   m_miners, m_minersCount, workVars, teleVars,
                   h_peakMax, submitVars>>

\* the registration block, under m_minerWorkMutex
Start_Register(c) ==
    LET nm == frame[c].newMiners
        base == Len(m_miners)
        pool == m_miners \o nm
    IN
    /\ exitStatus = "running"
    /\ pc[c] = "start_alloc"
    /\ frame[c].globalIndex = Len(Gpus)
    /\ m_miners' = pool
    /\ miners' = [k \in DOMAIN miners |->
                    IF \E j \in 1 .. Len(nm) : nm[j] = k
                    THEN InitAndStart(miners[k],
                             base + (CHOOSE j \in 1 .. Len(nm) : nm[j] = k) - 1)
                    ELSE miners[k]]
    /\ m_minersCount' = Len(pool)
    /\ IF Len(pool) = 0
       THEN \* "No cpu/gpu selected": exit(0)
            /\ exitStatus' = "exit0"
            /\ UNCHANGED <<m_isMining, m_timerStart, h_starts>>
       ELSE /\ m_isMining' = TRUE
            /\ ResetTimer
            /\ h_starts' = Drop2(Append(h_starts,
                               StartRecord(TRUE, FALSE, Len(nm), Len(nm), pool)))
            /\ UNCHANGED exitStatus
    /\ Return(c, [op |-> "start", val |-> TRUE])
    /\ UNCHANGED <<now, breakerVars, Gpus, g_ExitApplication, m_work, m_workMutex,
                   teleVars, h_peakMax, submitVars>>

\* the application asks to exit (a signal, a fatal error elsewhere)
RequestExit ==
    /\ exitStatus = "running"
    /\ ~g_ExitApplication
    /\ g_ExitApplication' = TRUE
    /\ UNCHANGED <<now, exitStatus, breakerVars, Gpus, poolVars, workVars, teleVars,
                   ctxVars, obsVars, submitVars>>

(***************************************************************************)
(* Farm::PurgeThreadInternal and Farm::stop                                *)
(***************************************************************************)
\* the records not marked complete are kept, the others deleted
PurgeThreadInternal(map) ==
    [id \in {k \in DOMAIN map : ~map[k].done} |-> map[id]]

\* stop(): takes m_sumbitMutex, purges ...
Stop_Purge(c) ==
    /\ exitStatus = "running"
    /\ pc[c] = "idle"
    /\ m_sumbitMutex = "free"
    /\ m_sumbitMutex' = c
    /\ m_submiters' = PurgeThreadInternal(m_submiters)
    /\ pc' = [pc EXCEPT ![c] = "stop_sleep"]
    /\ UNCHANGED <<now, exitStatus, breakerVars, Gpus, g_ExitApplication, poolVars,
                   workVars, teleVars, frame, ret, obsVars, m_submitID,
                   gs_sequentialBuildMutex, threads, sub>>

\* ... sleeps CpuSleep(1000) holding it, and releases it
Stop_Wake_KeepsLock(c) ==
    /\ exitStatus = "running"
    /\ pc[c] = "stop_sleep"
    /\ UNCHANGED m_sumbitMutex
    /\ pc' = [pc EXCEPT ![c] = "stop_pool"]
    /\ UNCHANGED <<now, exitStatus, breakerVars, Gpus, g_ExitApplication, poolVars,
                   workVars, teleVars, frame, ret, obsVars, m_submitID, m_submiters,
                   gs_sequentialBuildMutex, threads, sub>>

Stop_Wake(c) ==
    /\ exitStatus = "running"
    /\ pc[c] = "stop_sleep"
    /\ m_sumbitMutex' = "free"
    /\ pc' = [pc EXCEPT ![c] = "stop_pool"]
    /\ UNCHANGED <<now, exitStatus, breakerVars, Gpus, g_ExitApplication, poolVars,
                   workVars, teleVars, frame, ret, obsVars, m_submitID, m_submiters,
                   gs_sequentialBuildMutex, threads, sub>>

\* ... then internalStop() under m_minerWorkMutex
Stop_Internal(c) ==
    /\ exitStatus = "running"
    /\ pc[c] = "stop_pool"
    /\ InternalStop
    /\ ReturnVoid(c)
    /\ h_starts' = <<>>
    /\ UNCHANGED <<now, exitStatus, breakerVars, Gpus, g_ExitApplication, m_minersCount,
                   workVars, teleVars, h_peakMax,
                   submitVars>>

(***************************************************************************)
(* Farm::DetectDeadMiners                                                  *)
(***************************************************************************)
\* deadCount: the pool members whose isStopped() is true
DeadCount(pool) ==
    Cardinality({k \in 1 .. Len(pool) : miners[pool[k]].st = "stopped"})

\* m_miners.size() == deadCount && deadCount
AllDead_EmptyToo(pool) == Len(pool) = DeadCount(pool)
AllDead(pool) == Len(pool) = DeadCount(pool) /\ DeadCount(pool) # 0

DetectDeadMiners(c) ==
    /\ exitStatus = "running"
    /\ pc[c] = "idle"
    /\ IF AllDead(m_miners)
       THEN /\ InternalStop
            /\ Return(c, [op |-> "DetectDeadMiners", val |-> TRUE])
            /\ h_starts' = <<>>
       ELSE /\ Return(c, [op |-> "DetectDeadMiners", val |-> FALSE])
            /\ UNCHANGED <<m_miners, m_isMining, miners, h_starts>>
    /\ UNCHANGED <<now, exitStatus, breakerVars, Gpus, g_ExitApplication, m_minersCount,
                   workVars, teleVars, h_peakMax, submitVars>>

\* a worker stops on its own (device failure): isStopped() turns true
MinerStops(k) ==
    /\ exitStatus = "running"
    /\ k \in Range(m_miners)
    /\ miners[k].st # "stopped"
    /\ miners' = [miners EXCEPT ![k].st = "stopped"]
    /\ UNCHANGED <<now, exitStatus, breakerVars, Gpus, g_ExitApplication, m_isMining,
                   m_miners, m_minersCount, workVars, teleVars, ctxVars, obsVars,
                   submitVars>>

(***************************************************************************)
(* Farm::miningProgress                                                    *)
(***************************************************************************)
\* (U64)round(hcount / (float)(dt / 1000.0f))
MinerHashRate(hcount, dt) == (2 * hcount * SecondMS + dt) \div (2 * dt)

\* dt = TimeGetMilliSec() - m_lastProgressTime, floored at 100
ProgressDt(last, t) ==
    LET ref == IF last = 0 THEN t ELSE last
    IN IF t - ref < MinProgressDtMS THEN MinProgressDtMS ELSE t - ref

RECURSIVE SeqSum(_)
SeqSum(seq) == IF seq = <<>> THEN 0 ELSE Head(seq) + SeqSum(Tail(seq))

\* the default-constructed WorkingProgress
EmptyProgress ==
    [totalHashRate |-> 0, minersHasheRate |-> <<>>, minersHasheRatePeak |-> <<>>,
     gpuGlobalIndex |-> <<>>, acceptedShares |-> <<>>, rejectedShares |-> <<>>,
     temperature |-> <<>>, fan |-> <<>>]

\* Miner::GetTemp(t, f): the sensors are not modelled, every reading is 0
GetTemp(m) == [t |-> 0, f |-> 0]

\* the snapshot p the loop over m_miners builds from the raw counters hc
Snapshot(pool, hc, dt) ==
    LET n == Len(pool)
        rates == [k \in 1 .. n |-> MinerHashRate(hc[k], dt)]
    IN [EmptyProgress EXCEPT
          !.totalHashRate = SeqSum(rates),
          !.minersHasheRate = rates,
          !.gpuGlobalIndex = [k \in 1 .. n |-> miners[pool[k]].abs],
          !.acceptedShares = [k \in 1 .. n |->
                                m_solutionStats.accepted[miners[pool[k]].abs]],
          !.rejectedShares = [k \in 1 .. n |->
                                m_solutionStats.rejected[miners[pool[k]].abs]],
          !.temperature = [k \in 1 .. n |-> GetTemp(miners[pool[k]]).t],
          !.fan = [k \in 1 .. n |-> GetTemp(miners[pool[k]]).f]]

\* first half, under m_minerWorkMutex: the snapshot and the dead-pool check
MiningProgress_Collect(c) ==
    /\ exitStatus = "running"
    /\ pc[c] = "idle"
    /\ m_lastProgressTime' = now
    /\ \E hc \in [1 .. Len(m_miners) -> HashCounts] :
          frame' = [frame EXCEPT ![c] = [EmptyFrame EXCEPT !.p =
                       Snapshot(m_miners, hc, ProgressDt(m_lastProgressTime, now))]]
    /\ pc' = [pc EXCEPT ![c] = "progress_merge"]
    /\ IF AllDead(m_miners)
       THEN /\ InternalStop
            /\ h_starts' = <<>>
       ELSE UNCHANGED <<m_miners, m_isMining, miners, h_starts>>
    /\ UNCHANGED <<now, exitStatus, breakerVars, Gpus, g_ExitApplication, m_minersCount,
                   workVars, m_minersHasheRatePeak, m_progress, ret,
                   h_peakMax, submitVars>>

\* the peak store after merging the rates of one snapshot: re-created with
\* zeros when its size differs from the snapshot's, then raised to each rate
PeakMerge_Overwrite(peak, rates) == rates
PeakMerge(peak, rates) ==
    LET base == IF Len(peak) # Len(rates)
                THEN [k \in 1 .. Len(rates) |-> 0]
                ELSE peak
    IN [k \in 1 .. Len(rates) |-> Max(base[k], rates[k])]

\* highest value reported so far for each position
PeakMaxAfter(seen, peak) ==
    [k \in 1 .. Max(Len(seen), Len(peak)) |->
        Max(IF k <= Len(seen) THEN seen[k] ELSE 0,
            IF k <= Len(peak) THEN peak[k] ELSE 0)]

\* second half, under m_progressMutex: the peak merge and the published copy
MiningProgress_Merge(c) ==
    LET p == frame[c].p
        peak == PeakMerge(m_minersHasheRatePeak, p.minersHasheRate)
    IN
    /\ exitStatus = "running"
    /\ pc[c] = "progress_merge"
    /\ m_minersHasheRatePeak' = peak
    /\ m_progress' = [p EXCEPT !.minersHasheRatePeak = peak]
    /\ h_peakMax' = PeakMaxAfter(h_peakMax, peak)
    /\ ReturnVoid(c)
    /\ UNCHANGED <<now, exitStatus, breakerVars, Gpus, g_ExitApplication, poolVars,
                   workVars, m_lastProgressTime, h_starts, submitVars>>

\* a second passes
TickSecond ==
    /\ exitStatus = "running"
    /\ now + SecondMS <= MinuteMS + MaxPollSeconds * SecondMS
    /\ now' = now + SecondMS
    /\ UNCHANGED <<exitStatus, breakerVars, farmVars, submitVars>>

(***************************************************************************)
(* Farm::SetWork                                                           *)
(***************************************************************************)
\* takes m_workMutex, compares, installs a different package; the range-for
\* over m_miners fixes its begin and end here
SetWork_Begin_AlwaysInstall(c, wp) ==
    /\ exitStatus = "running"
    /\ pc[c] = "idle"
    /\ m_workMutex = "free"
    /\ m_workMutex' = c
    /\ m_work' = wp
    /\ frame' = [frame EXCEPT ![c] = [EmptyFrame EXCEPT
                    !.same = FALSE, !.arg = wp, !.oldWork = m_work,
                    !.oldTimer = m_timerStart, !.snap = m_miners, !.i = 1]]
    /\ pc' = [pc EXCEPT ![c] = "setwork_loop"]
    /\ UNCHANGED <<now, exitStatus, breakerVars, Gpus, g_ExitApplication, poolVars,
                   m_timerStart, teleVars, ret, obsVars, submitVars>>

SetWork_Begin(c, wp) ==
    LET same == m_work # NoWork /\ IsSame(m_work, wp)
    IN
    /\ exitStatus = "running"
    /\ pc[c] = "idle"
    /\ m_workMutex = "free"
    /\ m_workMutex' = c
    /\ m_work' = IF same THEN m_work ELSE wp
    /\ frame' = [frame EXCEPT ![c] = [EmptyFrame EXCEPT
                    !.same = same, !.arg = wp, !.oldWork = m_work,
                    !.oldTimer = m_timerStart, !.snap = m_miners, !.i = 1]]
    /\ pc' = [pc EXCEPT ![c] = "setwork_loop"]
    /\ UNCHANGED <<now, exitStatus, breakerVars, Gpus, g_ExitApplication, poolVars,
                   m_timerStart, teleVars, ret, obsVars, submitVars>>

\* m->SetWork(m_farmData.m_work) on the next element.  m_workMutex does not
\* guard m_miners: when the pool changed since the loop began the element is
\* a destroyed or moved object, and the call may or may not land on a miner
SetWork_Each(c) ==
    LET k == frame[c].snap[frame[c].i]
        raced == m_miners # frame[c].snap
    IN
    /\ exitStatus = "running"
    /\ pc[c] = "setwork_loop"
    /\ frame[c].i <= Len(frame[c].snap)
    /\ frame' = [frame EXCEPT ![c].i = @ + 1, ![c].raced = (@ \/ raced)]
    /\ \/ /\ k \in DOMAIN miners
          /\ miners' = [miners EXCEPT ![k] = MinerSetWork(@, m_work)]
       \/ /\ raced
          /\ UNCHANGED miners
    /\ UNCHANGED <<now, exitStatus, breakerVars, Gpus, g_ExitApplication, m_isMining,
                   m_miners, m_minersCount, workVars, teleVars, pc, ret,
                   obsVars, submitVars>>

\* end of the loop: resetTimer() for a newly installed package, unlock
SetWork_End(c) ==
    /\ exitStatus = "running"
    /\ pc[c] = "setwork_loop"
    /\ frame[c].i > Len(frame[c].snap)
    /\ IF frame[c].same THEN UNCHANGED m_timerStart ELSE ResetTimer
    /\ m_workMutex' = "free"
    /\ ReturnVoid(c)
    /\ UNCHANGED <<now, exitStatus, breakerVars, Gpus, g_ExitApplication, poolVars,
                   m_work, teleVars, obsVars, submitVars>>

(***************************************************************************)
(* Farm::submitProof: the calling worker thread                            *)
(***************************************************************************)
\* the handle that names no dispatched thread
NoThread == 0

\* the worker threads that call submitProof
Submitters == {"w1", "w2"}

\* no submitProof frame: the locals sol, id, started and t do not exist
IdleSub == [pc |-> "idle", id |-> 0, started |-> FALSE, t |-> NoThread]

\* m_submitID++
Submit_Inc(w) ==
    /\ exitStatus = "running"
    /\ sub[w].pc = "idle"
    /\ m_submitID < MaxSubmits
    /\ m_submitID' = m_submitID + 1
    /\ sub' = [sub EXCEPT ![w].pc = "read_id"]
    /\ UNCHANGED <<now, exitStatus, breakerVars, farmVars, m_submiters, m_sumbitMutex,
                   gs_sequentialBuildMutex, threads>>

\* uint32_t id = m_submitID; started = false
Submit_ReadId(w) ==
    /\ exitStatus = "running"
    /\ sub[w].pc = "read_id"
    /\ sub' = [sub EXCEPT ![w].pc = "spawn", ![w].id = m_submitID,
                          ![w].started = FALSE]
    /\ UNCHANGED <<now, exitStatus, breakerVars, farmVars, m_submitID, m_submiters,
                   m_sumbitMutex, gs_sequentialBuildMutex, threads>>

\* a dispatched thread before its first step; the lambda captures the
\* caller's sol, id and started by reference
NewThread(w) == [pc |-> "lock_seq", parent |-> w, solLocal |-> "unset",
                 idlocal |-> 0]

\* auto t = new std::thread([&] {...})
Submit_Spawn(w) ==
    /\ exitStatus = "running"
    /\ sub[w].pc = "spawn"
    /\ threads' = Append(threads, NewThread(w))
    /\ sub' = [sub EXCEPT ![w].pc = "wait", ![w].t = Len(threads) + 1]
    /\ UNCHANGED <<now, exitStatus, breakerVars, farmVars, m_submitID, m_submiters,
                   m_sumbitMutex, gs_sequentialBuildMutex>>

\* while(!started) CpuSleep(20)
Submit_Wait_NoWait(w) ==
    /\ exitStatus = "running"
    /\ sub[w].pc = "wait"
    /\ sub' = [sub EXCEPT ![w].pc = "register"]
    /\ UNCHANGED <<now, exitStatus, breakerVars, farmVars, m_submitID, m_submiters,
                   m_sumbitMutex, gs_sequentialBuildMutex, threads>>

Submit_Wait(w) ==
    /\ exitStatus = "running"
    /\ sub[w].pc = "wait"
    /\ sub[w].started
    /\ sub' = [sub EXCEPT ![w].pc = "register"]
    /\ UNCHANGED <<now, exitStatus, breakerVars, farmVars, m_submitID, m_submiters,
                   m_sumbitMutex, gs_sequentialBuildMutex, threads>>

\* under m_sumbitMutex: m_submiters[id] = {t, false}; t->detach(); purge;
\* then submitProof returns and its locals are gone
Submit_Register(w) ==
    /\ exitStatus = "running"
    /\ sub[w].pc = "register"
    /\ m_sumbitMutex = "free"
    /\ m_submiters' = PurgeThreadInternal(
                          (sub[w].id :> [t |-> sub[w].t, done |-> FALSE]) @@ m_submiters)
    /\ sub' = [sub EXCEPT ![w] = IdleSub]
    /\ UNCHANGED <<now, exitStatus, breakerVars, farmVars, m_submitID, m_sumbitMutex,
                   gs_sequentialBuildMutex, threads>>

(***************************************************************************)
(* Farm::submitProof: the dispatched thread                                *)
(***************************************************************************)
\* the frame of the submitProof call that dispatched thread h still exists
FrameAlive(h) ==
    /\ sub[threads[h].parent].t = h
    /\ sub[threads[h].parent].pc \in {"wait", "register"}

\* std::lock_guard<std::mutex> g(*gs_sequentialBuildMutex)
Thread_LockSequential_NoWait(h) ==
    /\ exitStatus = "running"
    /\ h \in DOMAIN threads
    /\ threads[h].pc = "lock_seq"
    /\ gs_sequentialBuildMutex' = h
    /\ threads' = [threads EXCEPT ![h].pc = "copy"]
    /\ UNCHANGED <<now, exitStatus, breakerVars, farmVars, m_submitID, m_submiters,
                   m_sumbitMutex, sub>>

Thread_LockSequential(h) ==
    /\ exitStatus = "running"
    /\ h \in DOMAIN threads
    /\ threads[h].pc = "lock_seq"
    /\ gs_sequentialBuildMutex = NoThread
    /\ gs_sequentialBuildMutex' = h
    /\ threads' = [threads EXCEPT ![h].pc = "copy"]
    /\ UNCHANGED <<now, exitStatus, breakerVars, farmVars, m_submitID, m_submiters,
                   m_sumbitMutex, sub>>

\* SolutionSptr solLocal = sol; uint32_t idlocal = id: reads of the caller's
\* locals.  Once the caller has returned they are dangling references: the
\* copy is not a reference to the solution and the id is any value
Thread_Copy(h) ==
    /\ exitStatus = "running"
    /\ h \in DOMAIN threads
    /\ threads[h].pc = "copy"
    /\ IF FrameAlive(h)
       THEN threads' = [threads EXCEPT ![h].pc = "signal", ![h].solLocal = "owned",
                                       ![h].idlocal = sub[threads[h].parent].id]
       ELSE \E garbage \in 0 .. MaxSubmits :
               threads' = [threads EXCEPT ![h].pc = "signal",
                                          ![h].solLocal = "garbage",
                                          ![h].idlocal = garbage]
    /\ UNCHANGED <<now, exitStatus, breakerVars, farmVars, m_submitID, m_submiters,
                   m_sumbitMutex, gs_sequentialBuildMutex, sub>>

\* started = true: a write to the caller's local.  Once the caller has
\* returned it lands on whatever the stack holds there, possibly the started
\* flag of the caller's next submitProof call
Thread_Signal(h) ==
    /\ exitStatus = "running"
    /\ h \in DOMAIN threads
    /\ threads[h].pc = "signal"
    /\ threads' = [threads EXCEPT ![h].pc = "accept"]
    /\ \/ /\ FrameAlive(h) \/ sub[threads[h].parent].pc = "wait"
          /\ sub' = [sub EXCEPT ![threads[h].parent].started = TRUE]
       \/ /\ ~FrameAlive(h)
          /\ UNCHANGED sub
    /\ UNCHANGED <<now, exitStatus, breakerVars, farmVars, m_submitID, m_submiters,
                   m_sumbitMutex, gs_sequentialBuildMutex>>

\* m_onSolutionFound(solLocal) is entered ...
Thread_AcceptorCall(h) ==
    /\ exitStatus = "running"
    /\ h \in DOMAIN threads
    /\ threads[h].pc = "accept"
    /\ threads' = [threads EXCEPT ![h].pc = "in_acceptor"]
    /\ UNCHANGED <<now, exitStatus, breakerVars, farmVars, m_submitID, m_submiters,
                   m_sumbitMutex, gs_sequentialBuildMutex, sub>>

\* ... and returns, or raises into catch (...); then CpuSleep(100) begins
Thread_AcceptorReturn(h) ==
    /\ exitStatus = "running"
    /\ h \in DOMAIN threads
    /\ threads[h].pc = "in_acceptor"
    /\ \E raised \in BOOLEAN :
          threads' = [threads EXCEPT ![h].pc = IF raised THEN "caught" ELSE "settle"]
    /\ UNCHANGED <<now, exitStatus, breakerVars, farmVars, m_submitID, m_submiters,
                   m_sumbitMutex, gs_sequentialBuildMutex, sub>>

\* catch (...): "Submit aborted" is printed, the thread goes on
Thread_Caught(h) ==
    /\ exitStatus = "running"
    /\ h \in DOMAIN threads
    /\ threads[h].pc = "caught"
    /\ threads' = [threads EXCEPT ![h].pc = "settle"]
    /\ UNCHANGED <<now, exitStatus, breakerVars, farmVars, m_submitID, m_submiters,
                   m_sumbitMutex, gs_sequentialBuildMutex, sub>>

\* the record with id idlocal is marked complete if find() finds one
MarkComplete(map, idlocal) ==
    IF idlocal \in DOMAIN map
    THEN [map EXCEPT ![idlocal].done = TRUE]
    ELSE map

\* after CpuSleep(100): under m_sumbitMutex mark the record, solLocal.reset();
\* the lambda ends, which releases m_sumbitMutex and *gs_sequentialBuildMutex
Thread_Mark(h) ==
    /\ exitStatus = "running"
    /\ h \in DOMAIN threads
    /\ threads[h].pc = "settle"
    /\ m_sumbitMutex = "free"
    /\ m_submiters' = MarkComplete(m_submiters, threads[h].idlocal)
    /\ threads' = [threads EXCEPT ![h].pc = "done", ![h].solLocal = "released"]
    /\ gs_sequentialBuildMutex' = NoThread
    /\ UNCHANGED <<now, exitStatus, breakerVars, farmVars, m_submitID, m_sumbitMutex, sub>>

(***************************************************************************)
(* Initial state and specifications                                        *)
(***************************************************************************)
\* the Farm right after construction, nothing started, nothing reported
InitFarm ==
    /\ now = MinuteMS
    /\ exitStatus = "running"
    /\ m_solutionStats = ZeroStats
    /\ m_consecutiveRejectedCount = 0
    /\ m_lastRejectedTimeMS = 0
    /\ h_breaker = [prev |-> 0, run |-> 0, claimed |-> 0, sinceAcc |-> 0,
                    lastOp |-> "none", accepts |-> FALSE]
    /\ g_ExitApplication = FALSE
    /\ m_isMining = FALSE
    /\ m_miners = <<>>
    /\ m_minersCount = 0
    /\ miners = <<>>
    /\ m_work = NoWork
    /\ m_workMutex = "free"
    /\ m_timerStart = 0
    /\ m_lastProgressTime = 0
    /\ m_minersHasheRatePeak = <<>>
    /\ m_progress = EmptyProgress
    /\ pc = [c \in Contexts |-> "idle"]
    /\ frame = [c \in Contexts |-> EmptyFrame]
    /\ ret = [c \in Contexts |-> [op |-> "none"]]
    /\ h_starts = <<>>
    /\ h_peakMax = <<>>
    /\ m_submitID = 0
    /\ m_submiters = <<>>
    /\ m_sumbitMutex = "free"
    /\ gs_sequentialBuildMutex = NoThread
    /\ threads = <<>>
    /\ sub = [w \in Submitters |-> IdleSub]

\* any device inventory
Init == InitFarm /\ Gpus \in Inventories

\* an inventory of CPU devices, all enabled
InitCpuOnly ==
    /\ InitFarm
    /\ Gpus = <<DeviceCpu, DeviceCpu>>

NextBreaker ==
    \/ \E d \in DeviceIndices : AddAcceptedSolution(d)
    \/ \E d \in DeviceIndices : AddRejectedSolution(d)
    \/ TickMinute

\* the accept/reject reports of the network client, minutes apart
SpecBreaker == InitCpuOnly /\ [][NextBreaker]_vars

\* the driving process restarts the farm: the work-feed path starts and stops
\* it, the telemetry path watches for a dead pool; workers die, exit is asked
NextLifecycle ==
    \/ Start_PreInit("feed")
    \/ Start_Alloc("feed")
    \/ Start_Register("feed")
    \/ Stop_Purge("feed")
    \/ Stop_Wake("feed")
    \/ Stop_Internal("feed")
    \/ DetectDeadMiners("poll")
    \/ MiningProgress_Collect("poll")
    \/ MiningProgress_Merge("poll")
    \/ \E k \in DOMAIN miners : MinerStops(k)
    \/ RequestExit

SpecLifecycle == Init /\ [][NextLifecycle]_vars

\* telemetry: both paths poll while the work-feed path restarts the farm
NextTelemetry ==
    \/ Start_PreInit("feed")
    \/ Start_Alloc("feed")
    \/ Start_Register("feed")
    \/ Stop_Purge("feed")
    \/ Stop_Wake("feed")
    \/ Stop_Internal("feed")
    \/ \E c \in Contexts : MiningProgress_Collect(c)
    \/ \E c \in Contexts : MiningProgress_Merge(c)
    \/ \E k \in DOMAIN miners : MinerStops(k)
    \/ TickSecond

SpecTelemetry == Init /\ [][NextTelemetry]_vars

\* work distribution: the work-feed path starts the farm and installs work
\* while the telemetry path may tear a dead pool down
NextWork ==
    \/ Start_PreInit("feed")
    \/ Start_Alloc("feed")
    \/ Start_Register("feed")
    \/ \E wp \in Packages : SetWork_Begin("feed", wp)
    \/ SetWork_Each("feed")
    \/ SetWork_End("feed")
    \/ DetectDeadMiners("poll")
    \/ \E k \in DOMAIN miners : MinerStops(k)
    \/ TickSecond

SpecWork == Init /\ [][NextWork]_vars

\* both contexts drive the lifecycle
NextPool ==
    \/ \E c \in Contexts : Start_PreInit(c)
    \/ \E c \in Contexts : Start_Alloc(c)
    \/ \E c \in Contexts : Start_Register(c)
    \/ \E c \in Contexts : Stop_Purge(c)
    \/ \E c \in Contexts : Stop_Wake(c)
    \/ \E c \in Contexts : Stop_Internal(c)
    \/ \E c \in Contexts : DetectDeadMiners(c)
    \/ \E k \in DOMAIN miners : MinerStops(k)

SpecPool == Init /\ [][NextPool]_vars

\* the submission pipeline: worker threads submit, the dispatched threads
\* deliver, the driving process stops the farm now and then
NextSubmit ==
    \/ \E w \in Submitters : Submit_Inc(w)
    \/ \E w \in Submitters : Submit_ReadId(w)
    \/ \E w \in Submitters : Submit_Spawn(w)
    \/ \E w \in Submitters : Submit_Wait(w)
    \/ \E w \in Submitters : Submit_Register(w)
    \/ \E h \in 1 .. MaxSubmits : Thread_LockSequential(h)
    \/ \E h \in 1 .. MaxSubmits : Thread_Copy(h)
    \/ \E h \in 1 .. MaxSubmits : Thread_Signal(h)
    \/ \E h \in 1 .. MaxSubmits : Thread_AcceptorCall(h)
    \/ \E h \in 1 .. MaxSubmits : Thread_AcceptorReturn(h)
    \/ \E h \in 1 .. MaxSubmits : Thread_Caught(h)
    \/ \E h \in 1 .. MaxSubmits : Thread_Mark(h)
    \/ Stop_Purge("feed")
    \/ Stop_Wake("feed")
    \/ Stop_Internal("feed")

SpecSubmit == InitCpuOnly /\ [][NextSubmit]_vars

\* every thread that can take a step eventually takes it, every lock that
\* keeps coming free is eventually acquired by each thread waiting for it,
\* and the driving process keeps calling stop()
SubmitFairness ==
    /\ \A w \in Submitters :
          /\ WF_vars(Submit_ReadId(w)) /\ WF_vars(Submit_Spawn(w))
          /\ WF_vars(Submit_Wait(w)) /\ SF_vars(Submit_Register(w))
    /\ \A h \in 1 .. MaxSubmits :
          /\ SF_vars(Thread_LockSequential(h)) /\ WF_vars(Thread_Copy(h))
          /\ WF_vars(Thread_Signal(h)) /\ WF_vars(Thread_AcceptorCall(h))
          /\ WF_vars(Thread_AcceptorReturn(h)) /\ WF_vars(Thread_Caught(h))
          /\ SF_vars(Thread_Mark(h))
    /\ SF_vars(Stop_Purge("feed"))
    /\ WF_vars(Stop_Wake("feed"))
    /\ WF_vars(Stop_Internal("feed"))

SpecSubmitFair == SpecSubmit /\ SubmitFairness

\* as SubmitFairness, but an acceptor callback may never return
SubmitFairnessBlockingAcceptor ==
    /\ \A w \in Submitters :
          /\ WF_vars(Submit_ReadId(w)) /\ WF_vars(Submit_Spawn(w))
          /\ WF_vars(Submit_Wait(w)) /\ SF_vars(Submit_Register(w))
    /\ \A h \in 1 .. MaxSubmits :
          /\ SF_vars(Thread_LockSequential(h)) /\ WF_vars(Thread_Copy(h))
          /\ WF_vars(Thread_Signal(h)) /\ WF_vars(Thread_AcceptorCall(h))
          /\ WF_vars(Thread_Caught(h)) /\ SF_vars(Thread_Mark(h))
    /\ SF_vars(Stop_Purge("feed"))
    /\ WF_vars(Stop_Wake("feed"))
    /\ WF_vars(Stop_Internal("feed"))

SpecSubmitBlockingAcceptor == SpecSubmit /\ SubmitFairnessBlockingAcceptor

\* both contexts start the farm and watch for a dead pool; the work-feed
\* path stops the farm, the telemetry path polls
NextPoolPoll ==
    \/ \E c \in Contexts : Start_PreInit(c)
    \/ \E c \in Contexts : Start_Alloc(c)
    \/ \E c \in Contexts : Start_Register(c)
    \/ Stop_Purge("feed")
    \/ Stop_Wake("feed")
    \/ Stop_Internal("feed")
    \/ \E c \in Contexts : DetectDeadMiners(c)
    \/ MiningProgress_Collect("poll")
    \/ MiningProgress_Merge("poll")
    \/ \E k \in DOMAIN miners : MinerStops(k)

\* a farm with one enabled device
InitOneDevice == InitFarm /\ Gpus = <<DeviceNvidia, DeviceOff>>

SpecPoolPoll == InitOneDevice /\ [][NextPoolPoll]_vars

\* the least the scheduler guarantees: a caller that can go on does, the
\* thread that holds the serialization lock goes on, a lock that keeps
\* coming free is eventually taken by one of those waiting for it, and a
\* stop() that has begun goes on.  Nobody is obliged to call stop()
SubmitProgress ==
    /\ WF_vars(\E w \in Submitters :
                  Submit_ReadId(w) \/ Submit_Spawn(w) \/ Submit_Wait(w))
    /\ WF_vars(\E h \in 1 .. MaxSubmits :
                  \/ Thread_Copy(h) \/ Thread_Signal(h) \/ Thread_AcceptorCall(h)
                  \/ Thread_AcceptorReturn(h) \/ Thread_Caught(h))
    /\ SF_vars(\E h \in 1 .. MaxSubmits : Thread_LockSequential(h))
    /\ SF_vars(\/ \E h \in 1 .. MaxSubmits : Thread_Mark(h)
               \/ \E w \in Submitters : Submit_Register(w))
    /\ WF_vars(Stop_Wake("feed") \/ Stop_Internal("feed"))

SpecSubmitProgress == SpecSubmit /\ SubmitProgress

(***************************************************************************)
(* Claims                                                                  *)
(***************************************************************************)

\* C1: with a maximum of 3, once three AddRejectedSolution calls have been
\* made with no AddAcceptedSolution between them, each at most 5 minutes
\* after the rejection before it, the process has terminated fatally.
C1_ThreeRejectionsInWindowAreFatal ==
    h_breaker.run >= g_maxConsecutiveSubmitErrors => exitStatus = "fatal"

\* C2: as long as no solution was accepted, the consecutive-rejection counter
\* is 1 after the first rejection, one more after a rejection made 5 minutes
\* or less after the previous one, and 1 after a rejection made more than
\* 5 minutes after the previous one, which then is the previous rejection
\* for the next gap.
C2_CounterFollowsRejectionRule ==
    (~h_breaker.accepts /\ h_breaker.lastOp = "reject")
        => m_consecutiveRejectedCount = h_breaker.claimed

\* C3: the counter is zero right after AddAcceptedSolution, and the process
\* terminates fatally only when at least two rejections were made since the
\* last accepted solution: with an accept between every two rejections the
\* farm never terminates.
C3_AcceptResetsAndPreventsFatal ==
    /\ h_breaker.lastOp = "accept" => m_consecutiveRejectedCount = 0
    /\ exitStatus = "fatal" => h_breaker.sinceAcc >= 2

\* C3 witness: reject, accept, reject has happened and the farm still runs
C3_Witness ==
    /\ exitStatus = "running"
    /\ h_breaker.accepts
    /\ h_breaker.lastOp = "reject"
    /\ h_breaker.sinceAcc = 1
    /\ SumOver(m_solutionStats.rejected, DeviceIndices) >= 3

\* C4 as claimed: of two start() calls in sequence with no teardown between
\* them both return success, and the second constructs, registers and
\* starts no worker.
C4_StartTwiceBothSucceed ==
    Len(h_starts) = 2 =>
        /\ h_starts[1].val /\ h_starts[2].val
        /\ h_starts[2].built = 0 /\ h_starts[2].reg = 0

\* C4 amended: a start() call returns failure only when the exit flag is
\* raised, and it then registers no worker; when the first of two start() calls
\* in sequence (no teardown between) returned success, the second returns
\* success and constructs, registers and starts no worker.
C4_SecondStartIsNoOp ==
    /\ \A i \in DOMAIN h_starts :
          ~h_starts[i].val => (g_ExitApplication /\ h_starts[i].reg = 0)
    /\ (Len(h_starts) = 2 /\ h_starts[1].val) =>
          /\ h_starts[2].val
          /\ h_starts[2].built = 0 /\ h_starts[2].reg = 0

\* C4 witness: a start() that registered a pool was followed by a second one
C4_Witness ==
    /\ Len(h_starts) = 2
    /\ h_starts[1].val /\ h_starts[1].reg > 0
    /\ h_starts[2].val
    /\ m_isMining /\ Len(m_miners) = h_starts[1].reg
    /\ pc["feed"] = "idle"

\* C5: the absolute device indices of the pool members are pairwise
\* distinct in every reachable state.
C5_PoolDevicesDistinct ==
    \A i, j \in 1 .. Len(m_miners) :
        i # j => miners[m_miners[i]].abs # miners[m_miners[j]].abs

\* the pool is not empty and every worker in it reports stopped
PoolAllStopped ==
    m_miners # <<>> /\ \A k \in Range(m_miners) : miners[k].st = "stopped"

\* the step tore the pool down: every member killed (and destroyed), the
\* pool empty, the mining flag cleared
TornDown ==
    /\ m_miners' = <<>>
    /\ ~m_isMining'
    /\ Range(m_miners) \cap DOMAIN miners' = {}

\* the step left pool membership, the miners and the mining flag alone
PoolUntouched ==
    /\ m_miners' = m_miners
    /\ m_isMining' = m_isMining
    /\ miners' = miners

\* C6: DetectDeadMiners() returns true and tears the pool down exactly when
\* the pool is non-empty and every worker reports stopped; miningProgress()
\* tears down under the same condition; otherwise DetectDeadMiners() returns
\* false and neither changes pool membership or the mining flag.
C6_TeardownIffAllStopped ==
    [][ /\ DetectDeadMiners("poll") =>
             IF PoolAllStopped
             THEN ret'["poll"].val /\ TornDown
             ELSE ~ret'["poll"].val /\ PoolUntouched
        /\ MiningProgress_Collect("poll") =>
             IF PoolAllStopped THEN TornDown ELSE PoolUntouched ]_vars

\* C6 witness: DetectDeadMiners() has returned true on a pool that died
C6_Witness ==
    /\ ret["poll"] = [op |-> "DetectDeadMiners", val |-> TRUE]
    /\ m_miners = <<>>
    /\ ~m_isMining
    /\ m_minersCount > 0

\* C7 as claimed: the peak reported for a position is never below a peak
\* reported for that position before, whatever happened to the pool between.
C7_PeakNeverDecreases ==
    \A i \in DOMAIN m_progress.minersHasheRatePeak :
        i <= Len(h_peakMax) => m_progress.minersHasheRatePeak[i] >= h_peakMax[i]

\* C7 amended: a merge that keeps the size of the peak store never lowers a
\* peak, and every reported peak is at least the rate reported with it.
C7_PeakMonotoneWhileSizeKept ==
    /\ [][ Len(m_minersHasheRatePeak') = Len(m_minersHasheRatePeak) =>
             \A i \in DOMAIN m_minersHasheRatePeak :
                 m_minersHasheRatePeak'[i] >= m_minersHasheRatePeak[i] ]_vars
    /\ [](\A i \in DOMAIN m_progress.minersHasheRate :
             m_progress.minersHasheRatePeak[i] >= m_progress.minersHasheRate[i])

\* C7 witness: a worker's rate went down to a lower non-zero rate and the
\* reported peak stayed
C7_Witness ==
    \E i \in DOMAIN m_progress.minersHasheRate :
        /\ m_progress.minersHasheRate[i] > 0
        /\ m_progress.minersHasheRate[i] < m_progress.minersHasheRatePeak[i]

\* C8: SetWork(w) on an installed package with the same identity token
\* leaves the installed package and the timing reference unchanged; otherwise
\* it installs w and resets the timing reference; either way every worker of
\* the pool has been handed the installed package when it returns.
C8_SetWorkFrame ==
    [][ SetWork_End("feed") =>
          LET f == frame["feed"]
              sameToken == f.oldWork # NoWork /\ f.oldWork.token = f.arg.token
          IN /\ IF sameToken
                THEN m_work' = f.oldWork /\ m_timerStart' = f.oldTimer
                ELSE m_work' = f.arg /\ m_timerStart' = now
             /\ \A k \in Range(m_miners') : miners'[k].work = m_work' ]_vars

\* C8 witness: a SetWork call with the token of the installed package but
\* another payload has gone through a non-empty pool, later than the last
\* reset of the timing reference
C8_Witness ==
    /\ pc["feed"] = "setwork_loop"
    /\ frame["feed"].i > Len(frame["feed"].snap)
    /\ frame["feed"].snap # <<>>
    /\ frame["feed"].same
    /\ frame["feed"].arg # m_work
    /\ m_timerStart < now
    /\ \A k \in Range(m_miners) : miners[k].work = m_work

\* C9: submitProof returns only after the dispatched thread has taken its
\* own reference to the solution and its own copy of the id: a thread that
\* has not yet copied them and raised started finds the caller still waiting
\* in the call that dispatched it, and the acceptor is entered with a
\* solution the thread owns.
C9_HandOffBeforeReturn ==
    \A h \in DOMAIN threads :
        /\ threads[h].pc \in {"lock_seq", "copy", "signal"} =>
              /\ FrameAlive(h)
              /\ sub[threads[h].parent].pc = "wait"
        /\ threads[h].pc \in {"accept", "in_acceptor"} =>
              threads[h].solLocal = "owned"

\* C9 witness: the caller has returned while the acceptor is still running
\* on the thread's own reference
C9_Witness ==
    \E h \in DOMAIN threads :
        /\ threads[h].pc = "in_acceptor"
        /\ threads[h].solLocal = "owned"
        /\ sub[threads[h].parent].pc = "idle"
        /\ \E id \in DOMAIN m_submiters : m_submiters[id].t = h

\* C10: every SubmissionRecord registered in the bookkeeping map is
\* eventually marked complete and removed by a purge pass.
C10_RecordsEventuallyReclaimed ==
    \A id \in 1 .. MaxSubmits :
        (id \in DOMAIN m_submiters) ~> (id \notin DOMAIN m_submiters)

\* C11: a caller of submitProof never waits for an acceptor callback: even
\* when the acceptor of an earlier submission never returns, every
\* submitProof call that waits for its hand-off eventually returns.
C11_CallerNeverWaitsForAcceptor ==
    \A w \in Submitters : (sub[w].pc = "wait") ~> (sub[w].pc = "idle")

\* C12: every submission obtains an id different from that of every other
\* submission: two submitProof calls in flight never hold the same id, and
\* a call never holds the id of a record another submission registered.
C12_SubmissionIdsDistinct ==
    \A w \in Submitters :
        sub[w].pc \in {"spawn", "wait", "register"} =>
            /\ \A v \in Submitters \ {w} :
                  sub[v].pc \in {"spawn", "wait", "register"} => sub[v].id # sub[w].id
            /\ sub[w].id \notin DOMAIN m_submiters

\* C13: when stop() returns, every record that a finished submission marked
\* complete has been reclaimed (the bookkeeping map holds no completed
\* record), every worker has been killed, the pool is empty and the mining
\* flag is cleared.
C13_StopDrainsSubmissions ==
    [][ Stop_Internal("feed") =>
          /\ \A id \in DOMAIN m_submiters' : ~m_submiters'[id].done
          /\ m_miners' = <<>>
          /\ ~m_isMining'
          /\ Range(m_miners) \cap DOMAIN miners' = {} ]_vars

\* C14: no operation that takes the pool lock runs while a SetWork broadcast
\* is part-way through the pool: as long as some workers of the pool have
\* been handed the package and others have not, the pool is the one the
\* broadcast began with.
C14_BroadcastExcludesPoolOperations ==
    \A c \in Contexts :
        (pc[c] = "setwork_loop" /\ 1 < frame[c].i /\ frame[c].i <= Len(frame[c].snap))
            => m_miners = frame[c].snap

\* C15: once the Farm has invoked Kill() on a worker it never invokes
\* SetWork on that worker again: every worker a SetWork broadcast reaches is
\* one that has not been killed.
C15_KilledWorkerNeverHandedWork ==
    [][ SetWork_Each("feed") =>
          frame["feed"].snap[frame["feed"].i] \in DOMAIN miners ]_vars

\* C16: no Farm lock is held across a call that can block: stop() does not
\* sleep while it holds the submission lock, and a dispatched thread holds
\* the serialization lock no longer than its acceptor callback, not during
\* the settle delay or the wait for the submission lock.
C16_NoLockAcrossBlockingCall ==
    /\ \A c \in Contexts : pc[c] = "stop_sleep" => m_sumbitMutex # c
    /\ \A h \in DOMAIN threads :
          threads[h].pc = "settle" => gs_sequentialBuildMutex # h

\* the inventory positions of the enabled devices of a supported kind
SupportedIndices ==
    SelectSeq([k \in 1 .. Len(Gpus) |-> k - 1],
              LAMBDA gi : Gpus[gi + 1].enabled /\ "AMD" \notin Gpus[gi + 1].gpuType)

\* the pool holds one started worker per enabled supported device, in
\* inventory order, with pool-relative indices 0..n-1
PoolAsInventory ==
    /\ Len(m_miners) = Len(SupportedIndices)
    /\ \A k \in 1 .. Len(m_miners) :
          /\ m_miners[k] \in DOMAIN miners
          /\ miners[m_miners[k]].abs = SupportedIndices[k]
          /\ miners[m_miners[k]].idx = k - 1
          /\ miners[m_miners[k]].st = "paused"

\* the outcome of a start() that got past its pre-init block
StartOutcome ==
    IF frame["feed"].newMiners # <<>>
    THEN PoolAsInventory' /\ m_isMining' /\ exitStatus' = "running"
    ELSE exitStatus' = "exit0" /\ ~m_isMining'

\* C17 as claimed: every start() on an empty, non-mining farm ends with the
\* pool built from the inventory and the mining flag set when a worker was
\* constructed, and with the process terminated and the flag unset when none
\* was.
C17_StartBuildsPoolOrTerminates ==
    [][ (Start_Register("feed") \/ (Start_Alloc("feed") /\ pc'["feed"] = "idle"))
            => StartOutcome ]_vars

\* C17 amended: the same for every start() that completes its allocation
\* loop; a start() that sees the exit flag raised in the loop returns failure
\* and leaves the pool empty and the mining flag unset.
C17_StartBuildsPoolUnlessExitAsked ==
    [][ /\ Start_Register("feed") => StartOutcome
        /\ (Start_Alloc("feed") /\ pc'["feed"] = "idle") =>
              /\ g_ExitApplication /\ ~ret'["feed"].val
              /\ m_miners' = <<>> /\ ~m_isMining' /\ exitStatus' = "running" ]_vars

\* C17 witness: start() has skipped an enabled AMD device and built the pool
\* from the device after it
C17_Witness ==
    /\ Gpus[1].enabled /\ "AMD" \in Gpus[1].gpuType
    /\ m_isMining /\ PoolAsInventory
    /\ Len(m_miners) = 1 /\ miners[m_miners[1]].abs = 1
    /\ ret["feed"] = [op |-> "start", val |-> TRUE]

\* C18: whenever no thread holds the pool lock, the mining flag is true if
\* and only if the pool is non-empty, and every worker of the pool is alive
\* (internalStop never leaves the pool holding workers behind a false flag).
C18_MiningFlagIffPoolNonEmpty ==
    /\ m_isMining <=> (m_miners # <<>>)
    /\ Range(m_miners) \subseteq DOMAIN miners

\* C18 witness: miningProgress() on the telemetry path has just torn down a
\* dead pool while the work-feed path is part-way through start()
C18_Witness ==
    /\ pc["poll"] = "progress_merge"
    /\ frame["poll"].p.minersHasheRate # <<>>
    /\ m_miners = <<>> /\ ~m_isMining
    /\ pc["feed"] = "start_alloc"
    /\ frame["feed"].newMiners # <<>>

C20_AcceptorsNeverOverlap ==
    /\ Cardinality({h \in DOMAIN threads : threads[h].pc = "in_acceptor"}) <= 1
    /\ \A h \in DOMAIN threads :
          threads[h].pc \in {"accept", "in_acceptor", "caught"} =>
              gs_sequentialBuildMutex = h
    /\ \A id \in DOMAIN m_submiters :
          m_submiters[id].done =>
              threads[m_submiters[id].t].pc \in {"settle", "done"}

\* C20 witness: an acceptor callback is running while the thread of a
\* submission made concurrently waits for the serialization lock
C20_Witness ==
    \E h, g \in DOMAIN threads :
        /\ threads[h].pc = "in_acceptor"
        /\ threads[g].pc = "lock_seq"
        /\ sub[threads[g].parent].pc = "wait"

=============================================================================
